---- MODULE Spec2Model ----
(***************************************************************************)
(* A model of foam2py/helpers.py: count_columns, load_dat (header scan,    *)
(* decimated read, tuple-column expansion, directory merge) and load_xy    *)
(* (column-name inference from the file name).                             *)
(*                                                                         *)
(* Text is a sequence of one-character strings.  An optional integer       *)
(* (Python None or an int) is the empty sequence or a one-element one.     *)
(* Each of the five specifications below drives one part of the module and *)
(* leaves the variables of the other parts at their idle values.           *)
(***************************************************************************)
EXTENDS Integers, Sequences, FiniteSets, TLC

VARIABLES
    \* load_xy
    stem, columns_count, xy_pc, pos, components_count, names, xy_error,
    \* count_columns
    content, sep, line_no, count_pc, count,
    \* load_dat.load: get_header_size and the decimated read
    lines, index, scan_pc, header_pos, use_nth, skipped, read_error,
    \* load_dat.unnest_columns
    source, dat, keys, key_no, nested, un_pc,
    \* load_dat on a directory
    filepaths, merge_pc, merged

xyVars == <<stem, columns_count, xy_pc, pos, components_count, names, xy_error>>
countVars == <<content, sep, line_no, count_pc, count>>
datVars == <<lines, index, scan_pc, header_pos, use_nth, skipped, read_error>>
unVars == <<source, dat, keys, key_no, nested, un_pc>>
mergeVars == <<filepaths, merge_pc, merged>>
vars == <<xyVars, countVars, datVars, unVars, mergeVars>>

----------------------------------------------------------------------------
(* Bounds of the model. *)

MaxStem == 7
MaxColumns == 10
MaxChars == 4
MaxLineNo == 3
MaxLines == 4
MaxLineLen == 1
MaxNth == 3
MaxCols == 3
MaxWidth == 2
MaxRows == 2
MaxFiles == 3

----------------------------------------------------------------------------
(* Python values and text helpers. *)

None == <<>>

Some(n) == <<n>>

\* All sequences over S of length lo..hi.
SeqsOf(S, lo, hi) == UNION {[1..n -> S] : n \in lo..hi}

Digits == <<"0", "1", "2", "3", "4", "5", "6", "7", "8", "9">>

\* str(n) of a non-negative int, as text.
RECURSIVE Str(_)
Str(n) == IF n < 10 THEN <<Digits[n + 1]>>
          ELSE Str(n \div 10) \o <<Digits[(n % 10) + 1]>>

\* text.count(ch) for a one-character ch.
RECURSIVE CountChar(_, _)
CountChar(text, ch) ==
    IF text = <<>> THEN 0
    ELSE (IF Head(text) = ch THEN 1 ELSE 0) + CountChar(Tail(text), ch)

\* text.split(ch): the pieces between occurrences of ch, empty pieces kept.
RECURSIVE SplitAcc(_, _, _)
SplitAcc(text, ch, piece) ==
    IF text = <<>> THEN <<piece>>
    ELSE IF Head(text) = ch
         THEN <<piece>> \o SplitAcc(Tail(text), ch, <<>>)
         ELSE SplitAcc(Tail(text), ch, Append(piece, Head(text)))

SplitOn(text, ch) == SplitAcc(text, ch, <<>>)

\* seq[k:] with a zero-based k, as Python slices it.
SliceFrom(seq, k) == SubSeq(seq, k + 1, Len(seq))

\* An int, and the float that the true division num / den gives.
IntNum(n) == [type |-> "int", num |-> n, den |-> 1]

FloatDiv(n, d) == [type |-> "float", num |-> n, den |-> d]

----------------------------------------------------------------------------
(* load_xy: column names from the file name and the column count. *)

XYChars == {"U", "p", "_"}

NumericSuffixes(n) == [i \in 1..n |-> Str(i - 1)]

\* field_components(field_name, components_count): the names, or the error
\* range() raises when it is handed a float.
FieldComponents(field_name, c) ==
    IF c.num <= c.den
    THEN [error |-> "", names |-> <<field_name>>]
    ELSE LET suffixed(components) ==
                 [i \in 1..Len(components) |->
                     field_name \o <<".">> \o components[i]]
         IN  IF c.num = 3 * c.den
             THEN [error |-> "",
                   names |-> suffixed(<<<<"x">>, <<"y">>, <<"z">>>>)]
             ELSE IF c.num = 6 * c.den
             THEN [error |-> "",
                   names |-> suffixed(<<<<"x", "x">>, <<"x", "y">>,
                                        <<"x", "z">>, <<"y", "y">>,
                                        <<"y", "z">>, <<"z", "z">>>>)]
             ELSE IF c.type = "int"
             THEN [error |-> "", names |-> suffixed(NumericSuffixes(c.num))]
             ELSE [error |-> "TypeError", names |-> <<>>]

\* The loop "for field_name in field_names[pos:]: names += ...".
RECURSIVE AppendComponents(_, _, _)
AppendComponents(acc, fields, c) ==
    IF acc.error # "" \/ fields = <<>> THEN acc
    ELSE LET r == FieldComponents(Head(fields), c)
         IN  IF r.error # "" THEN r
             ELSE AppendComponents([error |-> "", names |-> acc.names \o r.names],
                                   Tail(fields), c)

field_names == SplitOn(stem, "_")

XYOthers == UNCHANGED <<countVars, datVars, unVars, mergeVars>>

XYInit ==
    /\ stem \in SeqsOf(XYChars, 1, MaxStem)
    /\ columns_count \in 0..MaxColumns
    /\ xy_pc = "start"
    /\ pos = 0
    /\ components_count = IntNum(0)
    /\ names = <<>>
    /\ xy_error = ""
    \* count_columns is idle
    /\ content = <<>>
    /\ sep = "\t"
    /\ line_no = 1
    /\ count_pc = "idle"
    /\ count = 0
    \* load_dat.load is idle
    /\ lines = <<>>
    /\ index = 0
    /\ scan_pc = "idle"
    /\ header_pos = None
    /\ use_nth = None
    /\ skipped = {}
    /\ read_error = ""
    \* load_dat.unnest_columns is idle
    /\ source = <<>>
    /\ dat = <<>>
    /\ keys = <<>>
    /\ key_no = 0
    /\ nested = <<>>
    /\ un_pc = "idle"
    \* load_dat on a directory is idle
    /\ filepaths = <<>>
    /\ merge_pc = "idle"
    /\ merged = <<>>

\* Lines 133-137: the modulo by len(field_names[1:]) raises on one token, and
\* the one by len(field_names[3:]) on at most three.
ChoosePos ==
    /\ xy_pc = "start"
    /\ LET n1 == Len(SliceFrom(field_names, 1))
           n3 == Len(SliceFrom(field_names, 3))
       IN  IF n1 = 0
           THEN /\ xy_pc' = "error"
                /\ xy_error' = "ZeroDivisionError"
                /\ pos' = pos
           ELSE IF (columns_count - 1) % n1 = 0
           THEN /\ xy_pc' = "pos"
                /\ pos' = 1
                /\ xy_error' = xy_error
           ELSE IF columns_count > 3
           THEN IF n3 = 0
                THEN /\ xy_pc' = "error"
                     /\ xy_error' = "ZeroDivisionError"
                     /\ pos' = pos
                ELSE /\ xy_pc' = "pos"
                     /\ pos' = IF (columns_count - 3) % n3 = 0 THEN 3 ELSE 0
                     /\ xy_error' = xy_error
           ELSE /\ xy_pc' = "pos"
                /\ pos' = 0
                /\ xy_error' = xy_error
    /\ UNCHANGED <<stem, columns_count, components_count, names>>
    /\ XYOthers

\* Lines 140-143.
ConstructNames ==
    /\ xy_pc = "pos"
    /\ LET c == FloatDiv(columns_count - pos, Len(SliceFrom(field_names, pos)))
           r == AppendComponents(FieldComponents(field_names[1], IntNum(pos)),
                                 SliceFrom(field_names, pos), c)
       IN  /\ components_count' = c
           /\ names' = r.names
           /\ xy_error' = r.error
           /\ xy_pc' = IF r.error = "" THEN "names" ELSE "error"
    /\ UNCHANGED <<stem, columns_count, pos>>
    /\ XYOthers

XYNext == ChoosePos \/ ConstructNames

----------------------------------------------------------------------------
(* count_columns. *)

FileChars == {"\t", "a", "\n"}

\* f.readlines(): the lines of the file, each with the newline that ends it.
RECURSIVE ReadLinesAcc(_, _)
ReadLinesAcc(text, line) ==
    IF text = <<>> THEN (IF line = <<>> THEN <<>> ELSE <<line>>)
    ELSE IF Head(text) = "\n"
         THEN <<Append(line, "\n")>> \o ReadLinesAcc(Tail(text), <<>>)
         ELSE ReadLinesAcc(Tail(text), Append(line, Head(text)))

ReadLines(text) == ReadLinesAcc(text, <<>>)

\* The lines linecache keeps for a file.
GetLinesUnterminated(text) == ReadLines(text)

\* linecache ends the last line with a newline when the file does not.
GetLines(text) ==
    LET ls == ReadLines(text)
    IN  IF ls # <<>> /\ ls[Len(ls)][Len(ls[Len(ls)])] # "\n"
        THEN [ls EXCEPT ![Len(ls)] = Append(@, "\n")]
        ELSE ls

\* linecache.getline(path, line_no): the line, or '' when there is none.
GetLine(text, n) ==
    LET ls == GetLines(text)
    IN  IF 1 <= n /\ n <= Len(ls) THEN ls[n] ELSE <<>>

CountOthers == UNCHANGED <<xyVars, datVars, unVars, mergeVars>>

CountInit ==
    /\ content \in SeqsOf(FileChars, 0, MaxChars)
    /\ sep \in FileChars \ {"\n"}
    /\ line_no \in 1..MaxLineNo
    /\ count_pc = "start"
    /\ count = 0
    \* load_xy is idle
    /\ stem = <<>>
    /\ columns_count = 0
    /\ xy_pc = "idle"
    /\ pos = 0
    /\ components_count = IntNum(0)
    /\ names = <<>>
    /\ xy_error = ""
    \* load_dat.load is idle
    /\ lines = <<>>
    /\ index = 0
    /\ scan_pc = "idle"
    /\ header_pos = None
    /\ use_nth = None
    /\ skipped = {}
    /\ read_error = ""
    \* load_dat.unnest_columns is idle
    /\ source = <<>>
    /\ dat = <<>>
    /\ keys = <<>>
    /\ key_no = 0
    /\ nested = <<>>
    /\ un_pc = "idle"
    \* load_dat on a directory is idle
    /\ filepaths = <<>>
    /\ merge_pc = "idle"
    /\ merged = <<>>

\* count_columns(filepath, sep, line_no), lines 32-33.
CountColumns ==
    /\ count_pc = "start"
    /\ LET line == GetLine(content, line_no)
       IN  count' = CountChar(line, sep) + CountChar(line, "\n")
    /\ count_pc' = "done"
    /\ UNCHANGED <<content, sep, line_no>>
    /\ CountOthers

CountNext == CountColumns

(* load_dat.load *)

DatChars == {"#", "1"}

\* line.startswith(comment) for the one-character comment marker.
StartsWith(line, comment) == line # <<>> /\ line[1] = comment

HeaderReturnIndex(i) == Some(i)

\* Line 48: "return index - 1".
HeaderReturn(i) == Some(i - 1)

SkipRowByOffset(n, h, nth) == n > h /\ (n - h) % nth # 0

\* Lines 84-85: the skiprows callable, "n > header_pos and n % use_nth".
SkipRow(n, h, nth) == n > h /\ n % nth # 0

\* Line 85: "not use_nth is None and use_nth >= 2".
Decimates(nth) == nth # None /\ nth[1] >= 2

DatOthers == UNCHANGED <<xyVars, countVars, unVars, mergeVars>>

DatInit ==
    /\ lines \in SeqsOf(SeqsOf(DatChars, 0, MaxLineLen), 0, MaxLines)
    /\ index = 0
    /\ scan_pc = "scan"
    /\ header_pos = None
    /\ use_nth = None
    /\ skipped = {}
    /\ read_error = ""
    \* load_xy is idle
    /\ stem = <<>>
    /\ columns_count = 0
    /\ xy_pc = "idle"
    /\ pos = 0
    /\ components_count = IntNum(0)
    /\ names = <<>>
    /\ xy_error = ""
    \* count_columns is idle
    /\ content = <<>>
    /\ sep = "\t"
    /\ line_no = 1
    /\ count_pc = "idle"
    /\ count = 0
    \* load_dat.unnest_columns is idle
    /\ source = <<>>
    /\ dat = <<>>
    /\ keys = <<>>
    /\ key_no = 0
    /\ nested = <<>>
    /\ un_pc = "idle"
    \* load_dat on a directory is idle
    /\ filepaths = <<>>
    /\ merge_pc = "idle"
    /\ merged = <<>>

\* get_header_size, lines 46-47: a line that starts with '#' is passed over.
ScanComment ==
    /\ scan_pc = "scan"
    /\ index < Len(lines)
    /\ StartsWith(lines[index + 1], "#")
    /\ index' = index + 1
    /\ UNCHANGED <<lines, scan_pc, header_pos, use_nth, skipped, read_error>>
    /\ DatOthers

\* get_header_size, lines 47-48: the first line that does not ends the scan.
ScanReturn ==
    /\ scan_pc = "scan"
    /\ index < Len(lines)
    /\ ~StartsWith(lines[index + 1], "#")
    /\ header_pos' = HeaderReturn(index)
    /\ scan_pc' = "read"
    /\ UNCHANGED <<lines, index, use_nth, skipped, read_error>>
    /\ DatOthers

\* get_header_size: the loop ends with no return statement reached, and the
\* function returns None.
ScanExhausted ==
    /\ scan_pc = "scan"
    /\ index = Len(lines)
    /\ header_pos' = None
    /\ scan_pc' = "read"
    /\ UNCHANGED <<lines, index, use_nth, skipped, read_error>>
    /\ DatOthers

\* load, lines 78-86: the rows the skiprows callable asks read_csv to skip.
\* Comparing a row number with a header_pos of None raises TypeError.
ReadCsv ==
    /\ scan_pc = "read"
    /\ \E nth \in {None} \cup {Some(k) : k \in 0..MaxNth} :
        /\ use_nth' = nth
        /\ IF ~Decimates(nth)
           THEN /\ skipped' = {}
                /\ read_error' = read_error
                /\ scan_pc' = "done"
           ELSE IF header_pos = None /\ lines # <<>>
           THEN /\ skipped' = {}
                /\ read_error' = "TypeError"
                /\ scan_pc' = "error"
           ELSE /\ skipped' = {n \in 0..(Len(lines) - 1) :
                                  SkipRow(n, header_pos[1], nth[1])}
                /\ read_error' = read_error
                /\ scan_pc' = "done"
    /\ UNCHANGED <<lines, index, header_pos>>
    /\ DatOthers

DatNext == ScanComment \/ ScanReturn \/ ScanExhausted \/ ReadCsv

(* load_dat.unnest_columns *)

\* The number in row r of column c, component i: every cell differs.
CellValue(c, r, i) == 100 * c + 10 * r + i

ColumnName(c) == <<"f">> \o Str(c)

\* The text of a tuple cell in the file: "(v0 v1 ...)".
RECURSIVE JoinNumbers(_)
JoinNumbers(vs) ==
    IF vs = <<>> THEN <<>>
    ELSE IF Len(vs) = 1 THEN Str(vs[1])
    ELSE Str(vs[1]) \o <<" ">> \o JoinNumbers(Tail(vs))

TupleText(vs) == <<"(">> \o JoinNumbers(vs) \o <<")">>

\* What read_csv makes of one column of the file: numbers (dtype float64) for
\* a scalar column, the cells' text (dtype object) otherwise.
ParsedColumn(kind, c, rows) ==
    IF kind.kind = "scalar"
    THEN [name |-> ColumnName(c), dtype |-> "float64",
          cells |-> [r \in 1..rows |-> CellValue(c, r, 0)]]
    ELSE IF kind.kind = "text"
    THEN [name |-> ColumnName(c), dtype |-> "object",
          cells |-> [r \in 1..rows |-> <<"a">>]]
    ELSE [name |-> ColumnName(c), dtype |-> "object",
          cells |-> [r \in 1..rows |->
                       TupleText([i \in 1..kind.width |->
                                     CellValue(c, r, i - 1)])]]

ColumnKinds ==
    {[kind |-> "scalar", width |-> 0], [kind |-> "text", width |-> 0]}
    \cup {[kind |-> "tuple", width |-> w] : w \in 1..MaxWidth}

\* re.match(rf'.*?{REGEX_FLOAT}', cell): the cell holds a digit somewhere.
MatchesFloat(text) ==
    \E k \in 1..Len(text) : \E d \in 1..10 : text[k] = Digits[d]

\* text.replace(ch, '').
RECURSIVE Remove(_, _)
Remove(text, ch) ==
    IF text = <<>> THEN <<>>
    ELSE IF Head(text) = ch THEN Remove(Tail(text), ch)
    ELSE <<Head(text)>> \o Remove(Tail(text), ch)

\* text.split(): the pieces between runs of blanks, no empty piece.
RECURSIVE SplitBlanksAcc(_, _)
SplitBlanksAcc(text, piece) ==
    IF text = <<>> THEN (IF piece = <<>> THEN <<>> ELSE <<piece>>)
    ELSE IF Head(text) = " "
         THEN (IF piece = <<>> THEN <<>> ELSE <<piece>>)
              \o SplitBlanksAcc(Tail(text), <<>>)
         ELSE SplitBlanksAcc(Tail(text), Append(piece, Head(text)))

SplitBlanks(text) == SplitBlanksAcc(text, <<>>)

DigitValue(ch) == (CHOOSE d \in 1..10 : Digits[d] = ch) - 1

\* float(token) for a token of decimal digits.
RECURSIVE ParseNumber(_)
ParseNumber(token) ==
    IF Len(token) = 1 THEN DigitValue(token[1])
    ELSE 10 * ParseNumber(SubSeq(token, 1, Len(token) - 1))
         + DigitValue(token[Len(token)])

\* Lines 58-60: fn, the cell's text to the array of its numbers.
ParseCell(text) ==
    LET tokens == SplitBlanks(Remove(Remove(text, "("), ")"))
    IN  [i \in 1..Len(tokens) |-> ParseNumber(tokens[i])]

\* dat.columns.to_list().index(key), zero-based.
IndexOfColumn(table, key) ==
    (CHOOSE k \in 1..Len(table) :
        /\ table[k].name = key
        /\ \A j \in 1..(k - 1) : table[j].name # key) - 1

\* dat.insert(loc, name, values) with a zero-based loc.
InsertColumn(table, loc, col) ==
    SubSeq(table, 1, loc) \o <<col>> \o SubSeq(table, loc + 1, Len(table))

InsertAtPos(p, component) == p

\* Line 66: the location "pos + component" of a component's column.
InsertLoc(p, component) == p + component

\* Lines 65-67: one column per component, inserted after the column key.
RECURSIVE InsertComponents(_, _, _, _, _)
InsertComponents(table, key, p, field, component) ==
    IF component >= Len(field[1]) THEN table
    ELSE InsertComponents(
             InsertColumn(table, InsertLoc(p, component),
                 [name |-> key \o <<".">> \o Str(component),
                  dtype |-> "float64",
                  cells |-> [r \in 1..Len(field) |-> field[r][component + 1]]]),
             key, p, field, component + 1)

\* Line 71: dat.drop(nested_columns, axis='columns').
DropColumns(table, dropped) ==
    LET kept(k) == \A j \in 1..Len(dropped) : dropped[j] # table[k].name
        F[k \in 0..Len(table)] ==
            IF k = 0 THEN <<>>
            ELSE IF kept(k) THEN Append(F[k - 1], table[k]) ELSE F[k - 1]
    IN  F[Len(table)]

UnOthers == UNCHANGED <<xyVars, countVars, datVars, mergeVars>>

UnInit ==
    /\ source \in [cols : SeqsOf(ColumnKinds, 1, MaxCols), rows : 1..MaxRows]
    /\ dat = [c \in 1..Len(source.cols) |->
                 ParsedColumn(source.cols[c], c, source.rows)]
    /\ keys = [c \in 1..Len(source.cols) |->
                  [name |-> ColumnName(c),
                   dtype |-> ParsedColumn(source.cols[c], c, source.rows).dtype]]
    /\ key_no = 0
    /\ nested = <<>>
    /\ un_pc = "loop"
    \* load_xy is idle
    /\ stem = <<>>
    /\ columns_count = 0
    /\ xy_pc = "idle"
    /\ pos = 0
    /\ components_count = IntNum(0)
    /\ names = <<>>
    /\ xy_error = ""
    \* count_columns is idle
    /\ content = <<>>
    /\ sep = "\t"
    /\ line_no = 1
    /\ count_pc = "idle"
    /\ count = 0
    \* load_dat.load is idle
    /\ lines = <<>>
    /\ index = 0
    /\ scan_pc = "idle"
    /\ header_pos = None
    /\ use_nth = None
    /\ skipped = {}
    /\ read_error = ""
    \* load_dat on a directory is idle
    /\ filepaths = <<>>
    /\ merge_pc = "idle"
    /\ merged = <<>>

\* Line 55-56: the column is text and its last cell looks like a number.
IsNested(k) ==
    /\ keys[k].dtype = "object"
    /\ LET cells == dat[IndexOfColumn(dat, keys[k].name) + 1].cells
       IN  MatchesFloat(cells[Len(cells)])

\* Lines 54-56: a column that is not nested is passed over.
UnnestSkip ==
    /\ un_pc = "loop"
    /\ key_no < Len(keys)
    /\ ~IsNested(key_no + 1)
    /\ key_no' = key_no + 1
    /\ UNCHANGED <<source, dat, keys, nested, un_pc>>
    /\ UnOthers

\* Lines 58-69: a nested column's cells are parsed and its components
\* inserted.
UnnestExpand ==
    /\ un_pc = "loop"
    /\ key_no < Len(keys)
    /\ IsNested(key_no + 1)
    /\ LET key == keys[key_no + 1].name
           at == IndexOfColumn(dat, key) + 1
           field == [r \in 1..Len(dat[at].cells) |-> ParseCell(dat[at].cells[r])]
           applied == [dat EXCEPT ![at].cells = field]
       IN  dat' = InsertComponents(applied, key, at, field, 0)
    /\ nested' = Append(nested, keys[key_no + 1].name)
    /\ key_no' = key_no + 1
    /\ UNCHANGED <<source, keys, un_pc>>
    /\ UnOthers

\* Line 71: after the loop the nested columns are dropped.
UnnestDrop ==
    /\ un_pc = "loop"
    /\ key_no = Len(keys)
    /\ dat' = DropColumns(dat, nested)
    /\ un_pc' = "done"
    /\ UNCHANGED <<source, keys, key_no, nested>>
    /\ UnOthers

UnNext == UnnestSkip \/ UnnestExpand \/ UnnestDrop

(* load_dat on a directory *)

\* The characters of path parts, in code-point order.
PathChars == <<"0", "1", "2", "f", "p">>

CharCode(ch) == CHOOSE k \in 1..Len(PathChars) : PathChars[k] = ch

\* a < b for two strings.
RECURSIVE StrLess(_, _)
StrLess(a, b) ==
    IF b = <<>> THEN FALSE
    ELSE IF a = <<>> THEN TRUE
    ELSE IF Head(a) = Head(b) THEN StrLess(Tail(a), Tail(b))
    ELSE CharCode(Head(a)) < CharCode(Head(b))

\* p < q for two paths: their parts compared as lists of strings.
RECURSIVE PathLess(_, _)
PathLess(p, q) ==
    IF q = <<>> THEN FALSE
    ELSE IF p = <<>> THEN TRUE
    ELSE IF Head(p) = Head(q) THEN PathLess(Tail(p), Tail(q))
    ELSE StrLess(Head(p), Head(q))

\* The .dat files that may lie below the directory, each the parts of its
\* path from the directory: 0/f, 100/f, 20/f, f and 0/p.
DatFiles ==
    {<<<<"0">>, <<"f">>>>, <<<<"1", "0", "0">>, <<"f">>>>,
     <<<<"2", "0">>, <<"f">>>>, <<<<"f">>>>, <<<<"0">>, <<"p">>>>}

\* fp.name: the last part.
FileName(p) == p[Len(p)]

\* load(dat_file): the table of one file, a row an index value and the row's
\* data.  A path whose first part has k characters has k + 1 rows, indexed
\* from 0, so index values repeat across files.
Load(p) ==
    [r \in 1..(Len(p[1]) + 1) |-> [index |-> r - 1, data |-> <<p, r>>]]

\* Insertion of p into an ascending sequence, after the paths not above it.
RECURSIVE InsertSorted(_, _)
InsertSorted(sorted, p) ==
    IF sorted = <<>> THEN <<p>>
    ELSE IF PathLess(p, Head(sorted)) THEN <<p>> \o sorted
    ELSE <<Head(sorted)>> \o InsertSorted(Tail(sorted), p)

Unsorted(paths) == paths

\* Line 102: sorted(filepaths).
SortedPaths(paths) ==
    LET F[k \in 0..Len(paths)] ==
            IF k = 0 THEN <<>> ELSE InsertSorted(F[k - 1], paths[k])
    IN  F[Len(paths)]

\* pd.concat of the tables, in the order given.
RECURSIVE Concat(_)
Concat(tables) ==
    IF tables = <<>> THEN <<>> ELSE Head(tables) \o Concat(Tail(tables))

MergeOthers == UNCHANGED <<xyVars, countVars, datVars, unVars>>

\* Line 98: rglob yields the files in an order of its own.
MergeInit ==
    /\ filepaths \in {fs \in SeqsOf(DatFiles, 0, MaxFiles) :
                         \A i, j \in 1..Len(fs) : i # j => fs[i] # fs[j]}
    /\ merge_pc = "start"
    /\ merged = <<>>
    \* load_xy is idle
    /\ stem = <<>>
    /\ columns_count = 0
    /\ xy_pc = "idle"
    /\ pos = 0
    /\ components_count = IntNum(0)
    /\ names = <<>>
    /\ xy_error = ""
    \* count_columns is idle
    /\ content = <<>>
    /\ sep = "\t"
    /\ line_no = 1
    /\ count_pc = "idle"
    /\ count = 0
    \* load_dat.load is idle
    /\ lines = <<>>
    /\ index = 0
    /\ scan_pc = "idle"
    /\ header_pos = None
    /\ use_nth = None
    /\ skipped = {}
    /\ read_error = ""
    \* load_dat.unnest_columns is idle
    /\ source = <<>>
    /\ dat = <<>>
    /\ keys = <<>>
    /\ key_no = 0
    /\ nested = <<>>
    /\ un_pc = "idle"

\* Lines 99-100: the files must all have one name.
MergeReject ==
    /\ merge_pc = "start"
    /\ Cardinality({FileName(filepaths[i]) : i \in 1..Len(filepaths)}) # 1
    /\ merge_pc' = "ValueError"
    /\ UNCHANGED <<filepaths, merged>>
    /\ MergeOthers

\* Line 102.
MergeConcat ==
    /\ merge_pc = "start"
    /\ Cardinality({FileName(filepaths[i]) : i \in 1..Len(filepaths)}) = 1
    /\ LET order == SortedPaths(filepaths)
       IN  merged' = Concat([i \in 1..Len(order) |-> Load(order[i])])
    /\ merge_pc' = "done"
    /\ UNCHANGED filepaths
    /\ MergeOthers

MergeNext == MergeReject \/ MergeConcat

----------------------------------------------------------------------------

SpecXY == XYInit /\ [][XYNext]_vars

SpecCount == CountInit /\ [][CountNext]_vars

SpecDat == DatInit /\ [][DatNext]_vars

SpecUnnest == UnInit /\ [][UnNext]_vars

SpecMerge == MergeInit /\ [][MergeNext]_vars

(* Claims about load_xy. *)

\* load_xy has finished, on a stem whose tokens are all non-empty and a line
\* of at least one column.
XYDone ==
    /\ xy_pc \in {"names", "error"}
    /\ columns_count >= 1
    /\ \A i \in 1..Len(field_names) : field_names[i] # <<>>

\* The names one token stands for when it covers n columns.
Expansion(token, n) ==
    IF n = 1 THEN <<token>>
    ELSE IF n = 3 THEN <<token \o <<".", "x">>, token \o <<".", "y">>,
                         token \o <<".", "z">>>>
    ELSE IF n = 6 THEN <<token \o <<".", "x", "x">>, token \o <<".", "x", "y">>,
                         token \o <<".", "x", "z">>, token \o <<".", "y", "y">>,
                         token \o <<".", "y", "z">>, token \o <<".", "z", "z">>>>
    ELSE [i \in 1..n |-> token \o <<".">> \o Str(i - 1)]

RECURSIVE ExpandAll(_, _)
ExpandAll(tokens, n) ==
    IF tokens = <<>> THEN <<>>
    ELSE Expansion(Head(tokens), n) \o ExpandAll(Tail(tokens), n)

\* C1: whenever load_xy builds its name list without an error, the list has
\* exactly columns_count names, whichever of pos = 1, 3, 0 was chosen.
C1_NameCountEqualsColumns ==
    (XYDone /\ xy_pc = "names") => Len(names) = columns_count

\* C2: when columns_count - pos is not a multiple of the number of tokens from
\* pos onward, load_xy signals an error and builds no name list.
C2_NonIntegerCountIsError ==
    (XYDone /\ xy_error # "ZeroDivisionError"
        /\ (columns_count - pos) % Len(SliceFrom(field_names, pos)) # 0)
    => (xy_pc = "error" /\ names = <<>>)

\* C3: for a stem of one token t and k >= 1 columns the rule-1 test does not
\* fail, pos is 0, components_count is k and the names are t expanded over k.
C3_SingleTokenExpands ==
    (XYDone /\ Len(field_names) = 1)
    => /\ xy_pc = "names"
       /\ pos = 0
       /\ components_count.num = columns_count * components_count.den
       /\ names = Expansion(field_names[1], columns_count)

\* C4: with n = (columns_count - pos) / (tokens from pos onward) an integer,
\* every token from pos onward contributes itself (n = 1), .x .y .z (n = 3),
\* .xx .xy .xz .yy .yz .zz (n = 6) and .0 ... .(n-1) for any other n, in order.
C4_ComponentExpansion ==
    LET rest == SliceFrom(field_names, pos)
        lead == Len(FieldComponents(field_names[1], IntNum(pos)).names)
    IN  (XYDone /\ xy_error # "ZeroDivisionError" /\ columns_count > pos
            /\ (columns_count - pos) % Len(rest) = 0)
        => /\ xy_pc = "names"
           /\ SubSeq(names, lead + 1, Len(names))
                  = ExpandAll(rest, (columns_count - pos) \div Len(rest))

(* Claims about count_columns. *)

\* The lines of the file as written: the text between newlines, without them.
FileLines ==
    LET pieces == SplitOn(content, "\n")
    IN  IF pieces[Len(pieces)] = <<>>
        THEN SubSeq(pieces, 1, Len(pieces) - 1)
        ELSE pieces

LastLineUnterminated ==
    /\ content # <<>>
    /\ content[Len(content)] # "\n"
    /\ line_no = Len(FileLines)

\* C10: for every line the file has, count_columns returns the number of
\* occurrences of sep in the line plus one, whether or not a newline ends it.
C10_CountIsSeparatorsPlusOne ==
    (count_pc = "done" /\ line_no <= Len(FileLines))
    => count = CountChar(FileLines[line_no], sep) + 1

\* A last line with no newline after it, holding a separator, was counted.
C10_Witness ==
    /\ count_pc = "done"
    /\ LastLineUnterminated
    /\ line_no >= 2
    /\ count >= 2

(* Claims about load_dat.load. *)

ScanDone == scan_pc \in {"read", "done", "error"}

IsComment(i) == StartsWith(lines[i + 1], "#")

\* Zero-based indices of the lines that do not start with '#'.
DataLines == {i \in 0..(Len(lines) - 1) : ~IsComment(i)}

FirstDataLine == CHOOSE i \in DataLines : \A j \in DataLines : i <= j

\* C5: on a file with at least one leading '#' line followed by a line that
\* is not one, the boundary b has b + 1 the index of the first line not
\* starting with '#', line b is a commented line and b >= 0.
C5_BoundaryBeforeFirstDataLine ==
    (ScanDone /\ DataLines # {} /\ FirstDataLine >= 1)
    => /\ header_pos # None
       /\ header_pos[1] + 1 = FirstDataLine
       /\ header_pos[1] >= 0
       /\ IsComment(header_pos[1])

\* Three commented lines and then a data line were scanned.
C5_Witness ==
    /\ ScanDone
    /\ DataLines # {}
    /\ FirstDataLine = 3
    /\ header_pos = Some(2)

\* C6: on an empty file, a file of '#' lines only, or a file whose first line
\* does not start with '#', the scan signals an error: the loader is never
\* handed a negative or a missing boundary.
C6_MalformedHeaderIsError ==
    ScanDone => (header_pos # None /\ header_pos[1] >= 0)

\* No line of the file is blank.
NoBlankLine == \A i \in 1..Len(lines) : lines[i] # <<>>

\* C7 as stated: with use_nth = N >= 2 a line after the header line h is
\* kept exactly when its offset from h is divisible by N.
C7_KeptByOffsetFromHeader ==
    (scan_pc = "done" /\ Decimates(use_nth) /\ header_pos # None
        /\ header_pos[1] >= 0 /\ NoBlankLine)
    => \A n \in 0..(Len(lines) - 1) :
          (n > header_pos[1]) =>
              ((n \notin skipped) <=> ((n - header_pos[1]) % use_nth[1] = 0))

\* C7 amended: with use_nth = N >= 2 a line after the header line h is kept
\* exactly when its zero-based line number in the file is divisible by N; the
\* header line and the lines before it are never skipped; with use_nth absent
\* or below 2 no line is skipped.
C7_KeptByFileLineNumber ==
    (scan_pc = "done")
    => IF Decimates(use_nth)
       THEN header_pos # None =>
            \A n \in 0..(Len(lines) - 1) :
               (n \notin skipped) <=>
                   (n <= header_pos[1] \/ n % use_nth[1] = 0)
       ELSE skipped = {}

\* A decimated read of a file whose header line number is not a multiple of
\* the stride, with a line kept and a line skipped after the header.
C7_Witness ==
    /\ scan_pc = "done"
    /\ NoBlankLine
    /\ Decimates(use_nth)
    /\ header_pos # None
    /\ header_pos[1] >= 0
    /\ header_pos[1] % use_nth[1] # 0
    /\ \E n \in skipped : n > header_pos[1]
    /\ \E n \in 0..(Len(lines) - 1) : n > header_pos[1] /\ n \notin skipped

(* Claims about load_dat.unnest_columns. *)

\* The columns that column c of the file stands for in the result.
ExpectedColumns(c) ==
    LET kind == source.cols[c]
    IN  IF kind.kind = "tuple"
        THEN [i \in 1..kind.width |->
                 [name |-> ColumnName(c) \o <<".">> \o Str(i - 1),
                  dtype |-> "float64",
                  cells |-> [r \in 1..source.rows |-> CellValue(c, r, i - 1)]]]
        ELSE <<ParsedColumn(kind, c, source.rows)>>

RECURSIVE ExpectedFrom(_)
ExpectedFrom(c) ==
    IF c > Len(source.cols) THEN <<>>
    ELSE ExpectedColumns(c) \o ExpectedFrom(c + 1)

\* C8: the result is the input column sequence with every tuple column f of
\* width W replaced, in place, by f.0 ... f.(W-1) in that order, column f.i
\* holding each row's i-th number; f itself is gone and the other columns
\* keep name, values and order.
C8_TupleColumnsExpandedInPlace ==
    (un_pc = "done") => dat = ExpectedFrom(1)

\* A table with two tuple columns of width two or more and a scalar column
\* between them was expanded.
C8_Witness ==
    /\ un_pc = "done"
    /\ source.rows >= 2
    /\ \E a, b, c \in 1..Len(source.cols) :
          /\ a < b /\ b < c
          /\ source.cols[a].kind = "tuple" /\ source.cols[a].width >= 2
          /\ source.cols[b].kind = "scalar"
          /\ source.cols[c].kind = "tuple" /\ source.cols[c].width >= 2

(* Claims about load_dat on a directory. *)

\* The files in ascending path order: 0/f, 0/p, 100/f, 20/f, f.
AscendingFiles ==
    <<<<<<"0">>, <<"f">>>>, <<<<"0">>, <<"p">>>>, <<<<"1", "0", "0">>, <<"f">>>>,
      <<<<"2", "0">>, <<"f">>>>, <<<<"f">>>>>>

Found == {filepaths[i] : i \in 1..Len(filepaths)}

\* The rows of the files found, file by file in ascending path order.
RECURSIVE RowsInOrder(_)
RowsInOrder(k) ==
    IF k > Len(AscendingFiles) THEN <<>>
    ELSE (IF AscendingFiles[k] \in Found THEN Load(AscendingFiles[k]) ELSE <<>>)
         \o RowsInOrder(k + 1)

RECURSIVE RowCount(_)
RowCount(paths) ==
    IF paths = <<>> THEN 0 ELSE Len(Load(Head(paths))) + RowCount(Tail(paths))

\* C9: with one file name below the directory, the result is the per-file
\* tables concatenated in ascending path order, whatever order the files were
\* found in; it has as many rows as the files together and every row keeps
\* its file's index value.
C9_MergeInAscendingPathOrder ==
    (merge_pc = "done")
    => /\ merged = RowsInOrder(1)
       /\ Len(merged) = RowCount(filepaths)

\* Three files found in descending path order were merged.
C9_Witness ==
    /\ merge_pc = "done"
    /\ Len(filepaths) >= 3
    /\ \A i \in 1..(Len(filepaths) - 1) : PathLess(filepaths[i + 1], filepaths[i])
    /\ \E i, j \in 1..Len(merged) : i # j /\ merged[i].index = merged[j].index

====
